---- MODULE Spec2Model ----
(***************************************************************************)
(* otp-auth: the OTP session state, the two ticker goroutines, the tview    *)
(* main loop that runs their queued updates and the form/list handlers,    *)
(* the providers file, the Quit button and the file picker.  Modelled from  *)
(* main.go and filepicker.go.                                              *)
(*                                                                         *)
(* Strings the code inspects character by character (secrets) are          *)
(* sequences of one-character strings; names are plain strings.  Indices   *)
(* are 0-based as in the code; a slice element i is provs[i + 1].          *)
(***************************************************************************)
EXTENDS Integers, Sequences, FiniteSets, TLC

(* ------------------------------ bounds -------------------------------- *)
\* The wall clock runs from a start instant up to MaxTime (epoch seconds).
MaxTime == 30
\* The provider list is capped: no add-provider is submitted beyond it.
MaxProviders == 2
\* The instants at which the countdown is computed run from 0 to MaxInstant.
MaxInstant == 125
\* At most MaxEvents events of the user wait for the main loop.
MaxEvents == 2

(* -------------------------- program constants ------------------------- *)
\* time.NewTicker(15 * time.Second)
CoarsePeriod == 15
\* time.NewTicker(1 * time.Second)
FinePeriod == 1
\* 30 - time.Now().Second()%30, and the TOTP period of totp.GenerateCode
WindowSeconds == 30
\* time.Now().Second() is the second within the minute
SecondsPerMinute == 60
\* base32 works on quanta of 8 characters
Quantum == 8

(* ------------------------------ strings ------------------------------- *)
UpperLetters ==
  << "A","B","C","D","E","F","G","H","I","J","K","L","M",
     "N","O","P","Q","R","S","T","U","V","W","X","Y","Z" >>

LowerLetters ==
  << "a","b","c","d","e","f","g","h","i","j","k","l","m",
     "n","o","p","q","r","s","t","u","v","w","x","y","z" >>

\* The alphabet of base32.StdEncoding.
Base32Chars ==
  { UpperLetters[i] : i \in 1..Len(UpperLetters) } \cup { "2","3","4","5","6","7" }

\* strings.ToUpper on one character.
ToUpperChar(c) ==
  IF \E i \in 1..Len(LowerLetters) : LowerLetters[i] = c
  THEN UpperLetters[CHOOSE i \in 1..Len(LowerLetters) : LowerLetters[i] = c]
  ELSE c

ToUpper(s) == [i \in 1..Len(s) |-> ToUpperChar(s[i])]

\* strings.TrimSpace (the model's only white space is the blank).
RECURSIVE TrimLeft(_)
TrimLeft(s) == IF s # << >> /\ Head(s) = " " THEN TrimLeft(Tail(s)) ELSE s

RECURSIVE TrimRight(_)
TrimRight(s) ==
  IF s # << >> /\ s[Len(s)] = " " THEN TrimRight(SubSeq(s, 1, Len(s) - 1)) ELSE s

TrimSpace(s) == TrimRight(TrimLeft(s))

\* secret + strings.Repeat("=", 8-n) when n := len(secret) % 8 is not 0.
PadToQuantum(s) ==
  IF Len(s) % Quantum = 0 THEN s
  ELSE s \o [i \in 1..(Quantum - (Len(s) % Quantum)) |-> "="]

\* The number of characters before the first "=".
DataLen(s) ==
  IF \E i \in 1..Len(s) : s[i] = "="
  THEN (CHOOSE i \in 1..Len(s) : s[i] = "=" /\ \A j \in 1..(i - 1) : s[j] # "=") - 1
  ELSE Len(s)

\* A decoder that folds case before looking a character up: it would accept
\* lower-case secrets, which StdEncoding refuses.
IsStdBase32AnyCase(s) ==
  LET n == Len(s)
      d == DataLen(s)
  IN  /\ n % Quantum = 0
      /\ \A i \in 1..d : ToUpperChar(s[i]) \in Base32Chars
      /\ \A i \in (d + 1)..n : s[i] = "="
      /\ (n - d) \in {0, 1, 3, 4, 6}

\* base32.StdEncoding.DecodeString(s) returns no error: whole quanta, data
\* characters of the alphabet, then padding of a length the encoding can
\* produce, in the last quantum only.
IsStdBase32(s) ==
  LET n == Len(s)
      d == DataLen(s)
  IN  /\ n % Quantum = 0
      /\ \A i \in 1..d : s[i] \in Base32Chars
      /\ \A i \in (d + 1)..n : s[i] = "="
      /\ (n - d) \in {0, 1, 3, 4, 6}

(* ------------------------------ inputs -------------------------------- *)
SecretEmpty == << >>
\* "JBSWY3DP"
SecretOK == << "J","B","S","W","Y","3","D","P" >>
\* "not-base32!"
SecretBad == << "n","o","t","-","b","a","s","e","3","2","!" >>
\* "jbswy3dp": well-formed for the TOTP library, not for StdEncoding
SecretLower == << "j","b","s","w","y","3","d","p" >>

\* What the user can have typed into the form (name, secret) when pressing
\* "Add Provider".
FormInputs ==
  { << "", SecretOK >>, << "work", SecretEmpty >>, << "work", SecretBad >>,
    << "work", SecretLower >>, << "work", SecretOK >> }

Provider(n, s) == [Name |-> n, Secret |-> s]

\* providers.json as the program finds it: absent, unreadable or malformed,
\* or a list that anyone may have written (no field is validated on load).
FileMissing == [state |-> "missing", data |-> << >>]
FileCorrupt == [state |-> "corrupt", data |-> << >>]
\* What a write that failed after the truncating open leaves: not a list.
FileTruncated == [state |-> "truncated", data |-> << >>]
FileOf(provs) == [state |-> "ok", data |-> provs]

InitialFiles ==
  { FileMissing, FileCorrupt,
    FileOf(<< Provider("work", SecretOK) >>),
    FileOf(<< Provider("home", SecretBad) >>),
    FileOf(<< Provider("", SecretOK) >>) }

\* The instants at which the program is started.
StartTimes == { 14 }

\* What os.WriteFile (O_TRUNC, then write) can do to the file.
SaveOutcomes == { "ok", "open_failed", "write_failed" }

VARIABLES
  providers,              \* []Provider
  providerList,           \* the items of the tview list (main texts)
  selectedProviderIndex,  \* -1: none
  currentOTP,             \* << >> is "", else the code
  currentProvider,        \* "" is absent
  otpView,                \* what otpView.SetText last set
  file,                   \* providers.json
  now,                    \* the wall clock, epoch seconds
  tickerStart,            \* the instant the tickers were created
  coarseC, fineC,         \* ticker.C of each ticker (buffer of one tick)
  pcCoarse, pcFine,       \* each ticker goroutine: "select" or "queued"
  updates,                \* the application's queue of updates
  executing,              \* the queued updates the main loop is now running
  lastEvent,              \* history: the kind of handler or update that last returned
  calls,                  \* history: the calls it made
  lastGen,                \* history: how the last generateTOTP call ended
  crashed,                \* an unrecovered panic ended the process
  events,                 \* the application's queue of key and mouse events
  order,                  \* history: what waits in events and updates, in
                          \* the order it was submitted
  app,                    \* "running"; "stopped": app.Stop() was called;
                          \* "exited": main has returned
  root,                   \* the application's root primitive
  inputCapture,           \* the application's input capture function
  picker,                 \* the variables ShowFilePicker's closures share
  filePath,               \* the text of the form's "File Path" field
  callbackLog             \* history: the paths the open picker's callback got

sessionVars == << selectedProviderIndex, currentOTP, currentProvider >>
dataVars == << providers, providerList, file >>
histVars == << lastEvent, calls, lastGen >>
tickerVars == << tickerStart, coarseC, fineC, pcCoarse, pcFine >>
queueVars == << events, order >>
pickerVars == << root, inputCapture, picker, filePath, callbackLog >>
otherVars == << app, pickerVars >>
vars == << providers, providerList, selectedProviderIndex, currentOTP,
           currentProvider, otpView, file, now, tickerStart, coarseC, fineC,
           pcCoarse, pcFine, updates, executing, lastEvent, calls, lastGen,
           crashed, events, order, app, root, inputCapture,
           picker, filePath, callbackLog >>

(* ------------------------------ display ------------------------------- *)
View(text, provider, otp, remaining, at) ==
  [text |-> text, provider |-> provider, otp |-> otp,
   remaining |-> remaining, at |-> at]

Message(text) == View(text, "", << >>, 0, -1)

\* The text set when otpView is created.
WelcomeView == Message("No providers available")
\* The text generateAndDisplayOTP sets when there is nothing to show.
NoSelectionView == Message("No providers available or no provider selected")

\* A countdown that forgets the % 30.
RemainingSecondsOfMinute(t) == WindowSeconds - (t % SecondsPerMinute)

\* 30 - time.Now().Second()%30
RemainingSeconds(t) == WindowSeconds - ((t % SecondsPerMinute) % WindowSeconds)

\* The code view; "at" is history: the instant remaining was computed at.
CodeView(provider, otp, t) == View("code", provider, otp, RemainingSeconds(t), t)

(* ------------------------------- TOTP --------------------------------- *)
\* totp.GenerateCode(secret, t): the secret is trimmed, padded and upper-cased,
\* then decoded; the code is a function of the decoded secret and of the
\* counter t / 30.
GenerateCode(secret, t) ==
  LET key == ToUpper(PadToQuantum(TrimSpace(secret)))
  IN  IF IsStdBase32(key)
      THEN [ok |-> TRUE, code |-> << key, t \div WindowSeconds >>]
      ELSE [ok |-> FALSE, code |-> << >>]

generateTOTP(secret, t) == GenerateCode(secret, t)

\* The counter a displayed code was generated for.
CounterOf(otp) == otp[2]

(* --------------------------- session record --------------------------- *)
\* The closures of main read and write main's variables; an operator on this
\* record is one closure, run from the record's state to the state it leaves.
Session ==
  [sel |-> selectedProviderIndex, otp |-> currentOTP, prov |-> currentProvider,
   view |-> otpView, gen |-> lastGen, calls |-> << >>, crashed |-> FALSE]

Commit(s) ==
  /\ selectedProviderIndex' = s.sel
  /\ currentOTP' = s.otp
  /\ currentProvider' = s.prov
  /\ otpView' = s.view
  /\ lastGen' = s.gen
  /\ calls' = s.calls
  /\ crashed' = s.crashed

\* updateCountdown
updateCountdown(s, t) ==
  IF s.otp = << >> \/ s.prov = ""
  THEN s
  ELSE [s EXCEPT !.view = CodeView(s.prov, s.otp, t)]

\* An error branch that panics, as main does when app.Run fails.
onGenerationErrorPanics(s) == [s EXCEPT !.gen = "err", !.crashed = TRUE]

\* The error branch of generateAndDisplayOTP: the message is shown and the
\* code and name are cleared; the selection stays.
onGenerationError(s) ==
  [s EXCEPT !.view = Message("Error: generation failed"),
            !.otp = << >>, !.prov = "", !.gen = "err"]

\* generateAndDisplayOTP; provs[s.sel + 1] with s.sel out of range panics.
\* One run reads the clock once: the time.Now() of generateTOTP and that of
\* updateCountdown are the same instant t.
generateAndDisplayOTP(s, provs, t) ==
  IF Len(provs) = 0 \/ s.sel = -1
  THEN [s EXCEPT !.view = NoSelectionView, !.otp = << >>, !.prov = ""]
  ELSE IF s.sel < 0 \/ s.sel >= Len(provs)
  THEN [s EXCEPT !.crashed = TRUE]
  ELSE LET provider == provs[s.sel + 1]
           r == generateTOTP(provider.Secret, t)
           called == [s EXCEPT !.calls = Append(@, "generateTOTP")]
       IN  IF ~r.ok
           THEN onGenerationError(called)
           ELSE updateCountdown(
                  [called EXCEPT !.otp = r.code, !.prov = provider.Name,
                                 !.gen = "ok"], t)

\* A coarse update that moves the selection to the newest provider, as the
\* add handler does.
coarseUpdateReselects(s, provs, t) ==
  IF Len(provs) > 0 /\ s.sel >= 0
  THEN generateAndDisplayOTP([s EXCEPT !.sel = Len(provs) - 1], provs, t)
  ELSE s

\* A coarse update that selects the first provider when none is selected.
coarseUpdateAutoSelects(s, provs, t) ==
  IF Len(provs) > 0
  THEN generateAndDisplayOTP([s EXCEPT !.sel = IF @ < 0 THEN 0 ELSE @],
                             provs, t)
  ELSE s

\* A coarse update without the test for providers and a selection.
coarseUpdateUnguarded(s, provs, t) == generateAndDisplayOTP(s, provs, t)

\* The update the 15 s goroutine queues.
coarseUpdate(s, provs, t) ==
  IF Len(provs) > 0 /\ s.sel >= 0
  THEN generateAndDisplayOTP(s, provs, t)
  ELSE s

\* A fine update that generates, as the coarse one does.
fineUpdateRegenerates(s, t) == generateAndDisplayOTP(s, providers, t)

\* The update the 1 s goroutine queues.
fineUpdate(s, t) == updateCountdown(s, t)

\* providerList's selected function.
selectedFunc(s, provs, index, t) ==
  generateAndDisplayOTP([s EXCEPT !.sel = index], provs, t)

(* ------------------------------ the file ------------------------------ *)
\* loadProviders, and main's fallback to an empty slice on an error.
loadProviders(f) ==
  IF f.state = "missing" THEN [providers |-> << >>, err |-> FALSE]
  ELSE IF f.state \in { "corrupt", "truncated" }
  THEN [providers |-> << >>, err |-> TRUE]
  ELSE [providers |-> f.data, err |-> FALSE]

\* saveProviders: the file it leaves and whether it returned an error.  A
\* failed open leaves the file alone; a failed write leaves it truncated.
saveProviders(provs, f, outcome) ==
  IF outcome = "ok" THEN [file |-> FileOf(provs), err |-> FALSE]
  ELSE IF outcome = "open_failed" THEN [file |-> f, err |-> TRUE]
  ELSE [file |-> FileTruncated, err |-> TRUE]

(* --------------------------- queued updates --------------------------- *)
\* The functions the ticker goroutines queue.
CoarseEv == "coarse"
FineEv == "fine"

\* What waits for the main loop: a queued update (kind "coarse" or "fine"),
\* or an event of the user's: the selection of item index of the list, or a
\* press of "Add Provider" with name and secret in the form.
Pending(kind, index, name, secret) ==
  [kind |-> kind, index |-> index, name |-> name, secret |-> secret]

UpdateOf(f) == Pending(f, -1, "", << >>)

(* ---------------------------- add provider --------------------------- *)
\* The validations of the "Add Provider" button's function: the message of
\* the first that fails, "" when none does.
validationError(name, secret) ==
  IF name = "" THEN "Error: Provider name cannot be empty"
  ELSE IF secret = << >> THEN "Error: Secret cannot be empty"
  ELSE IF ~IsStdBase32(secret) THEN "Error: Secret must be a valid base32 string"
  ELSE ""

\* An AddItem that puts the new item first.
addItemFirst(items, name) == << name >> \o items

\* providerList.AddItem(name, "", 0, nil): the item is put last.
addItem(items, name) == Append(items, name)

\* The "Add Provider" button's function: the session, list, items and file
\* it leaves.  outcome is what the file system does to the write, if one is
\* made.
addProvider(s, provs, items, f, name, secret, outcome, t) ==
  LET same == [s |-> s, providers |-> provs, items |-> items, file |-> f]
      rejected == validationError(name, secret)
  IN  IF rejected # ""
      THEN [same EXCEPT !.s.view = Message(rejected)]
      ELSE LET appended == Append(provs, Provider(name, secret))
               added == addItem(items, name)
               saved == saveProviders(appended, f, outcome)
               wrote == [s EXCEPT !.calls = Append(@, "saveProviders")]
           IN  IF saved.err
               THEN [s |-> [wrote EXCEPT !.view = Message("Error saving providers")],
                     providers |-> appended, items |-> added, file |-> saved.file]
               ELSE [s |-> generateAndDisplayOTP(
                             [wrote EXCEPT !.sel = Len(appended) - 1,
                                           !.otp = << >>, !.prov = "",
                                           !.view = Message("Success!")],
                             appended, t),
                     providers |-> appended, items |-> added, file |-> saved.file]

(* -------------------------------- Init -------------------------------- *)
\* The primitives of the application that can be its root.
MainFlex == "mainFlex"
Pages == "pages"
BrowseButton == "browseButton"

\* The input capture functions: nil, and the one ShowFilePicker sets.
NoCapture == "nil"
PickerCapture == "picker"

\* No picker has been shown, or the one shown has been closed.
NoPicker ==
  [originalRoot |-> "", originalInputCapture |-> "", currentPath |-> "",
   items |-> << >>, modalText |-> "", title |-> "", openedFrom |-> ""]

\* main up to app.Run, started at one of times with one of files.
InitWith(files, times) ==
  /\ file \in files
  /\ providers = loadProviders(file).providers
  /\ providerList = [i \in 1..Len(providers) |-> providers[i].Name]
  /\ selectedProviderIndex = -1
  /\ currentOTP = << >>
  /\ currentProvider = ""
  /\ otpView = WelcomeView
  /\ now \in times
  /\ tickerStart = now
  /\ coarseC = FALSE
  /\ fineC = FALSE
  /\ pcCoarse = "select"
  /\ pcFine = "select"
  /\ updates = << >>
  /\ executing = {}
  /\ lastEvent = "none"
  /\ calls = << >>
  /\ lastGen = "none"
  /\ crashed = FALSE
  /\ events = << >>
  /\ order = << >>
  /\ app = "running"
  /\ root = MainFlex
  /\ inputCapture = NoCapture
  /\ picker = NoPicker
  /\ filePath = ""
  /\ callbackLog = << >>

Init == InitWith(InitialFiles, StartTimes)

(* ------------------------------ the clock ----------------------------- *)
\* A tick is due on a ticker every period after the ticker was created.
Due(period, t) == t > tickerStart /\ (t - tickerStart) % period = 0

\* One second passes; each ticker whose period has elapsed puts a tick in its
\* channel, which holds one tick (a tick put into a full channel is dropped).
ClockAdvance ==
  /\ ~crashed
  /\ app # "exited"
  /\ now < MaxTime
  /\ now' = now + 1
  /\ coarseC' = (coarseC \/ Due(CoarsePeriod, now'))
  /\ fineC' = (fineC \/ Due(FinePeriod, now'))
  /\ UNCHANGED << dataVars, sessionVars, otpView, histVars, tickerStart,
                  pcCoarse, pcFine, updates, executing, crashed >>
  /\ UNCHANGED << otherVars, queueVars >>

(* ------------------------- the ticker goroutines ---------------------- *)
\* A goroutine that runs f itself instead of handing it to the main loop.
RunInGoroutine(f) ==
  /\ executing' = executing \cup { f }
  /\ UNCHANGED << updates, order >>

\* app.QueueUpdateDraw(f): f is sent to the application's updates; the caller
\* then waits until the main loop has run it.
QueueUpdateDraw(f) ==
  /\ updates' = Append(updates, f)
  /\ order' = Append(order, UpdateOf(f))
  /\ UNCHANGED executing

\* The 15 s goroutine: case <-ticker.C: app.QueueUpdateDraw(...)
CoarseTask ==
  /\ ~crashed
  /\ app # "exited"
  /\ pcCoarse = "select"
  /\ coarseC
  /\ coarseC' = FALSE
  /\ pcCoarse' = "queued"
  /\ QueueUpdateDraw(CoarseEv)
  /\ UNCHANGED << dataVars, sessionVars, otpView, histVars, now, tickerStart,
                  fineC, pcFine, crashed, otherVars, events >>

\* The 1 s goroutine: case <-ticker.C: app.QueueUpdateDraw(...)
FineTask ==
  /\ ~crashed
  /\ app # "exited"
  /\ pcFine = "select"
  /\ fineC
  /\ fineC' = FALSE
  /\ pcFine' = "queued"
  /\ QueueUpdateDraw(FineEv)
  /\ UNCHANGED << dataVars, sessionVars, otpView, histVars, now, tickerStart,
                  coarseC, pcCoarse, crashed, otherVars, events >>

(* ----------------------------- the main loop -------------------------- *)
\* q without its first x.
RemoveFirst(q, x) ==
  LET i == CHOOSE k \in 1..Len(q) :
             q[k] = x /\ \A j \in 1..(k - 1) : q[j] # x
  IN  SubSeq(q, 1, i - 1) \o SubSeq(q, i + 1, Len(q))

\* A main loop that takes the update queued last.
MainTakeNewestUpdate ==
  /\ ~crashed
  /\ app = "running"
  /\ executing = {}
  /\ updates # << >>
  /\ executing' = { updates[Len(updates)] }
  /\ updates' = SubSeq(updates, 1, Len(updates) - 1)
  /\ order' = RemoveFirst(order, UpdateOf(updates[Len(updates)]))
  /\ UNCHANGED << dataVars, sessionVars, otpView, histVars, now, tickerVars,
                  crashed, otherVars, events >>

\* app.Run's loop is sequential: it takes the next update or event only when
\* the one before has returned.
MainTakeUpdate ==
  /\ ~crashed
  /\ app = "running"
  /\ executing = {}
  /\ updates # << >>
  /\ executing' = { Head(updates) }
  /\ updates' = Tail(updates)
  /\ order' = RemoveFirst(order, UpdateOf(Head(updates)))
  /\ UNCHANGED << dataVars, sessionVars, otpView, histVars, now, tickerVars,
                  crashed, otherVars, events >>

\* The indices the tview list can pass to its selected function: its items.
ListIndices == 0..(Len(providerList) - 1)

\* The queued update of the 15 s goroutine runs and returns.
CoarseUpdate ==
  /\ ~crashed
  /\ app = "running"
  /\ CoarseEv \in executing
  /\ Commit(coarseUpdate(Session, providers, now))
  /\ executing' = executing \ { CoarseEv }
  /\ pcCoarse' = "select"
  /\ lastEvent' = "coarse"
  /\ UNCHANGED << dataVars, now, tickerStart, coarseC, fineC, pcFine, updates,
                  otherVars, queueVars >>

\* The queued update of the 1 s goroutine runs and returns.
FineUpdate ==
  /\ ~crashed
  /\ app = "running"
  /\ FineEv \in executing
  /\ Commit(fineUpdate(Session, now))
  /\ executing' = executing \ { FineEv }
  /\ pcFine' = "select"
  /\ lastEvent' = "fine"
  /\ UNCHANGED << dataVars, now, tickerStart, coarseC, fineC, pcCoarse, updates,
                  otherVars, queueVars >>

\* The main loop takes a key or mouse event that selects item index of the
\* list, and runs the list's selected function.
SelectedFunc(index) ==
  /\ ~crashed
  /\ app = "running"
  /\ root = MainFlex
  /\ executing = {}
  /\ Commit(selectedFunc(Session, providers, index, now))
  /\ lastEvent' = "select"
  /\ UNCHANGED << dataVars, now, tickerVars, updates, executing, otherVars >>

\* The main loop takes the event that presses "Add Provider", with name and
\* secret in the form, and runs the button's function.
AddProvider(name, secret, outcome) ==
  /\ ~crashed
  /\ app = "running"
  /\ root = MainFlex
  /\ executing = {}
  /\ Len(providers) < MaxProviders
  /\ LET r == addProvider(Session, providers, providerList, file,
                          name, secret, outcome, now)
     IN  /\ Commit(r.s)
         /\ providers' = r.providers
         /\ providerList' = r.items
         /\ file' = r.file
  /\ lastEvent' = "add"
  /\ UNCHANGED << now, tickerVars, updates, executing, otherVars >>

UserSelect ==
  /\ \E i \in ListIndices : SelectedFunc(i)
  /\ UNCHANGED queueVars

\* The file system's outcome is drawn only when the write is made.
UserAdd ==
  \E in \in FormInputs :
    \E outcome \in (IF validationError(in[1], in[2]) = ""
                    THEN SaveOutcomes ELSE { "ok" }) :
      /\ AddProvider(in[1], in[2], outcome)
      /\ UNCHANGED queueVars

\* The selected function as an operation of its own: called with any index,
\* not only with those of the list's items.
SelectIndices == (-2)..MaxProviders

ApiSelect ==
  /\ \E i \in SelectIndices : SelectedFunc(i)
  /\ UNCHANGED queueVars

Next ==
  \/ ClockAdvance
  \/ CoarseTask
  \/ FineTask
  \/ MainTakeUpdate
  \/ CoarseUpdate
  \/ FineUpdate
  \/ UserSelect
  \/ UserAdd

Spec == Init /\ [][Next]_vars

(* ----------------------- the queue of user events -------------------- *)
\* The events the user can submit: a selection of an item of the list, or a
\* press of "Add Provider" with one of the form's contents.
SelectEvents == { Pending("select", i, "", << >>) : i \in ListIndices }
QueueInputs == { << "work", SecretBad >> }
AddEvents == { Pending("add", -1, in[1], in[2]) : in \in QueueInputs }

\* The presses of "Add Provider" that wait in events.
PendingAdds == Len(SelectSeq(events, LAMBDA e : e.kind = "add"))

\* A key or mouse event of the user's is put into the application's events;
\* the main loop will take it when it gets to it.
UserSubmit ==
  /\ ~crashed
  /\ app = "running"
  /\ root = MainFlex
  /\ Len(events) < MaxEvents
  /\ \E ev \in SelectEvents \cup AddEvents :
       /\ ev.kind = "add" => Len(providers) + PendingAdds < MaxProviders
       /\ events' = Append(events, ev)
       /\ order' = Append(order, ev)
  /\ UNCHANGED << dataVars, sessionVars, otpView, histVars, now, tickerVars,
                  updates, executing, crashed, otherVars >>

\* The main loop's select receives from events: it runs the handler of the
\* oldest event, to its end.
MainTakeEvent ==
  /\ events # << >>
  /\ LET ev == Head(events)
     IN  /\ \/ /\ ev.kind = "select"
               /\ SelectedFunc(ev.index)
            \/ /\ ev.kind = "add"
               /\ \E outcome \in (IF validationError(ev.name, ev.secret) = ""
                                   THEN SaveOutcomes ELSE { "ok" }) :
                    AddProvider(ev.name, ev.secret, outcome)
         /\ events' = Tail(events)
         /\ order' = RemoveFirst(order, ev)

\* The program with the user's events waiting in their queue: the main loop
\* selects between its events and its updates.  It starts with one provider
\* loaded.
QueueNext ==
  \/ ClockAdvance
  \/ CoarseTask
  \/ FineTask
  \/ MainTakeUpdate
  \/ CoarseUpdate
  \/ FineUpdate
  \/ UserSubmit
  \/ MainTakeEvent

QueueInit ==
  InitWith({ FileOf(<< Provider("home", SecretOK) >>) }, StartTimes)

QueueSpec == QueueInit /\ [][QueueNext]_vars

(* --------------------------- the file picker -------------------------- *)
\* An entry of a directory as ioutil.ReadDir returns it, with the path
\* filepath.Join gives it; hidden: the name begins with ".".
DirEntry(name, path, isDir, hidden) ==
  [Name |-> name, Path |-> path, IsDir |-> isDir, Hidden |-> hidden]

\* The file system the picker is used on: ioutil.ReadDir of each path, the
\* entries sorted by name.  "/locked" cannot be read; a path that is a file,
\* or that does not exist, cannot either.
ReadDir(path) ==
  IF path = "/"
  THEN [err |-> FALSE,
        files |-> << DirEntry(".cache", "/.cache", TRUE, TRUE),
                     DirEntry("home", "/home", TRUE, FALSE),
                     DirEntry("locked", "/locked", TRUE, FALSE) >>]
  ELSE IF path = "/home"
  THEN [err |-> FALSE,
        files |-> << DirEntry(".profile", "/home/.profile", FALSE, TRUE),
                     DirEntry("key.txt", "/home/key.txt", FALSE, FALSE),
                     DirEntry("keys", "/home/keys", TRUE, FALSE) >>]
  ELSE IF path = "/home/keys"
  THEN [err |-> FALSE, files |-> << >>]
  ELSE [err |-> TRUE, files |-> << >>]

\* filepath.Dir
Dir(path) ==
  IF path \in { "/home/key.txt", "/home/keys", "/home/.profile" }
  THEN "/home"
  ELSE "/"

\* os.Getwd(), when the "File Path" field is empty.
WorkingDirs == { "/home", "/locked" }

FileInfo(name, path, isDir, isParent) ==
  [Name |-> name, Path |-> path, IsDir |-> isDir, IsParent |-> isParent]

\* listDirectory: the parent entry, then the directories, then the files,
\* hidden entries left out.  The names of the file system above are in lower
\* case, so that ReadDir's order is also the order of the lower-cased names.
listDirectory(dirPath) ==
  LET r == ReadDir(dirPath)
      shown == SelectSeq(r.files, LAMBDA e : ~e.Hidden)
      info(e) == FileInfo(e.Name, e.Path, e.IsDir, FALSE)
      dirs == SelectSeq(shown, LAMBDA e : e.IsDir)
      plain == SelectSeq(shown, LAMBDA e : ~e.IsDir)
  IN  IF r.err
      THEN [err |-> TRUE, files |-> << >>]
      ELSE [err |-> FALSE,
            files |-> << FileInfo("..", Dir(dirPath), TRUE, TRUE) >>
                        \o [i \in 1..Len(dirs) |-> info(dirs[i])]
                        \o [i \in 1..Len(plain) |-> info(plain[i])]]

\* fileList.AddItem(prefix+file.Name, file.Path, ...): the icon of the main
\* text, the name, and the secondary text.
Item(f) ==
  [icon |-> IF f.IsParent \/ f.IsDir THEN "dir" ELSE "file",
   name |-> f.Name, path |-> f.Path]

\* modal.SetText(fmt.Sprintf("Error: %s", ...))
BrowseErrorText == "Error: failed to read directory"

\* updateFileList: the list is cleared, then the directory is read.
updateFileList(p, dirPath) ==
  LET cleared == [p EXCEPT !.items = << >>]
      r == listDirectory(dirPath)
  IN  IF r.err
      THEN [cleared EXCEPT !.modalText = BrowseErrorText]
      ELSE [cleared EXCEPT
              !.currentPath = dirPath,
              !.items = [i \in 1..Len(r.files) |-> Item(r.files[i])],
              !.title = dirPath]

\* app.GetFocus() in the function of "Browse...": the primitive that has the
\* focus is the button that was pressed.
GetFocus == BrowseButton

\* restoreOriginal
restoreOriginal ==
  /\ root' = picker.originalRoot
  /\ inputCapture' = picker.originalInputCapture
  /\ picker' = NoPicker

\* The main loop runs the function of "Browse...": ShowFilePicker on the
\* path of the form, or on the working directory cwd when that is empty.
Browse(cwd) ==
  /\ ~crashed
  /\ app = "running"
  /\ executing = {}
  /\ root \in { MainFlex, BrowseButton }
  /\ LET currentPath == IF filePath = "" THEN cwd ELSE filePath
         shared == [originalRoot |-> GetFocus,
                    originalInputCapture |-> inputCapture,
                    currentPath |-> currentPath,
                    items |-> << >>,
                    modalText |-> "Select a file",
                    title |-> " File Picker ",
                    openedFrom |-> root]
     IN  picker' = updateFileList(shared, currentPath)
  /\ inputCapture' = PickerCapture
  /\ root' = Pages
  /\ callbackLog' = << >>
  /\ lastEvent' = "browse"
  /\ UNCHANGED << dataVars, sessionVars, otpView, calls, lastGen, now,
                  tickerVars, updates, executing, crashed, queueVars, app,
                  filePath >>

\* handleSelection(index) on a list with items: a directory is listed, a
\* file is given to the callback (which sets the form's field and the text
\* of otpView) and the picker is closed.
handleSelection(index) ==
  LET item == picker.items[index + 1]
  IN  IF item.icon = "dir"
      THEN /\ picker' = updateFileList(picker, item.path)
           /\ UNCHANGED << root, inputCapture, filePath, callbackLog,
                           otpView >>
      ELSE /\ filePath' = item.path
           /\ otpView' = Message("Selected file")
           /\ callbackLog' = Append(callbackLog, item.path)
           /\ restoreOriginal

\* The main loop takes Enter, or a click on an item, while the picker is
\* shown.  fileList.GetItemText(fileList.GetCurrentItem()) on a list without
\* items indexes out of range.
PickerSelect ==
  /\ ~crashed
  /\ app = "running"
  /\ executing = {}
  /\ root = Pages
  /\ \/ /\ picker.items # << >>
        /\ \E index \in 0..(Len(picker.items) - 1) : handleSelection(index)
        /\ UNCHANGED crashed
     \/ /\ picker.items = << >>
        /\ crashed' = TRUE
        /\ UNCHANGED << pickerVars, otpView >>
  /\ lastEvent' = "pick"
  /\ UNCHANGED << dataVars, sessionVars, calls, lastGen, now, tickerVars,
                  updates, executing, queueVars, app >>

\* The main loop takes Escape while the picker is shown.
PickerEscape ==
  /\ ~crashed
  /\ app = "running"
  /\ executing = {}
  /\ root = Pages
  /\ inputCapture = PickerCapture
  /\ restoreOriginal
  /\ lastEvent' = "escape"
  /\ UNCHANGED << dataVars, sessionVars, otpView, calls, lastGen, now,
                  tickerVars, updates, executing, crashed, queueVars, app,
                  filePath, callbackLog >>

\* The program with its file picker: "Browse...", the picker's keys, and
\* the tickers, whose updates the main loop runs whatever the root is.
PickerNext ==
  \/ ClockAdvance
  \/ CoarseTask
  \/ FineTask
  \/ MainTakeUpdate
  \/ CoarseUpdate
  \/ FineUpdate
  \/ \E cwd \in WorkingDirs : Browse(cwd)
  \/ PickerSelect
  \/ PickerEscape

PickerInit == InitWith({ FileMissing }, StartTimes)

PickerSpec == PickerInit /\ [][PickerNext]_vars

\* The main loop takes the event that presses "Quit" and runs the button's
\* function, app.Stop(): the loop of app.Run ends and runs nothing more.
Quit ==
  /\ ~crashed
  /\ app = "running"
  /\ root = MainFlex
  /\ executing = {}
  /\ app' = "stopped"
  /\ lastEvent' = "quit"
  /\ UNCHANGED << dataVars, sessionVars, otpView, calls, lastGen, now,
                  tickerVars, updates, executing, crashed, queueVars,
                  pickerVars >>

\* app.Run returns nil and main returns: the process ends, and with it the
\* two goroutines, wherever they are.
Exit ==
  /\ app = "stopped"
  /\ app' = "exited"
  /\ UNCHANGED << dataVars, sessionVars, otpView, histVars, now, tickerVars,
                  updates, executing, crashed, queueVars, pickerVars >>

\* The program with its Quit button.
QuitNext ==
  \/ Next
  \/ Quit
  \/ Exit

QuitSpec == Init /\ [][QuitNext]_vars

\* The countdown at any instant: the program started at any instant of
\* Instants with one provider, which the user selects.
Instants == 0..MaxInstant

CountdownInit ==
  InitWith({ FileOf(<< Provider("work", SecretOK) >>) }, Instants)

CountdownNext == UserSelect

CountdownSpec == CountdownInit /\ [][CountdownNext]_vars

\* The program with select(index) open to any caller.
NextApi ==
  \/ Next
  \/ ApiSelect

ApiSpec == Init /\ [][NextApi]_vars

(* ------------------------- steps and conditions ----------------------- *)
InRange(i, provs) == i >= 0 /\ i < Len(provs)

\* The session's state: no selection; a provider selected and its code held;
\* a provider selected and no code (the last generation failed).
StateOf(sel, otp) ==
  IF sel = -1 THEN "Unselected"
  ELSE IF otp # << >> THEN "SelectedValid"
  ELSE "SelectedError"

Queued(f) == \E i \in 1..Len(updates) : updates[i] = f

\* The main loop returns from the queued update of a goroutine.
CoarseStep == CoarseEv \in executing /\ CoarseEv \notin executing'
FineStep == FineEv \in executing /\ FineEv \notin executing'

\* The main loop runs a handler of the user's: nothing else moves.
UserStep(kind) ==
  /\ executing = {}
  /\ lastEvent' = kind
  /\ UNCHANGED << now, tickerVars, updates, executing >>

AddStep == UserStep("add")
SelectStep == UserStep("select")

\* A ticker goroutine leaves its select with a tick.
CoarseTaskStep == pcCoarse = "select" /\ pcCoarse' = "queued"
FineTaskStep == pcFine = "select" /\ pcFine' = "queued"

\* The oldest of the pending that is of one of kinds.
FirstOf(q, kinds) ==
  q[CHOOSE k \in 1..Len(q) :
      q[k].kind \in kinds /\ \A j \in 1..(k - 1) : q[j].kind \notin kinds]

UpdateKinds == { CoarseEv, FineEv }
EventKinds == { "select", "add" }

\* The main loop receives from its updates, or from its events.
TakeUpdateStep == Len(updates') < Len(updates)
TakeEventStep == Len(events') < Len(events)

\* The picker, shown, is asked for a directory that cannot be read.
ListingFailedStep ==
  /\ root = Pages
  /\ picker.modalText # BrowseErrorText
  /\ picker'.modalText = BrowseErrorText

\* The picker is closed.
PickerCloseStep == root = Pages /\ root' # Pages

\* app.Stop() has been called.
ShutdownBegun == app # "running"

ValidationErrors ==
  { "Error: Provider name cannot be empty", "Error: Secret cannot be empty",
    "Error: Secret must be a valid base32 string" }

\* The texts a handler of the user's, or a failed generation, sets on
\* otpView.
MessageTexts ==
  ValidationErrors
    \cup { "Error saving providers", "Error: generation failed",
           "Selected file" }

(* -------------------------------- claims ------------------------------ *)

\* C1: every rendered code view shows the code of the 30-second window its
\* remaining-seconds value was computed in.
C1_RenderedViewConsistent ==
  otpView.text = "code" =>
    CounterOf(otpView.otp) = otpView.at \div WindowSeconds

\* C2: the ticker goroutines only queue an update and write nothing; every
\* write to the session, the provider list and the display is made by the
\* main loop, which runs at most one handler or update at a time.
C2_SingleWriter ==
  /\ [](Cardinality(executing) <= 1)
  /\ [][ /\ CoarseTaskStep =>
              /\ updates' = Append(updates, CoarseEv)
              /\ UNCHANGED << sessionVars, dataVars, otpView, executing >>
         /\ FineTaskStep =>
              /\ updates' = Append(updates, FineEv)
              /\ UNCHANGED << sessionVars, dataVars, otpView, executing >>
         /\ << sessionVars, providers, providerList, otpView >>'
              # << sessionVars, providers, providerList, otpView >> =>
              /\ ~CoarseTaskStep /\ ~FineTaskStep
              /\ executing' = {}
              /\ Cardinality(executing) <= 1 ]_vars

\* C2 witness: the main loop has run the coarse update, which generated and
\* displayed a code, while the fine goroutine's update waits in the queue.
C2_Witness ==
  /\ lastEvent = "coarse"
  /\ calls = << "generateTOTP" >>
  /\ otpView.text = "code"
  /\ Queued(FineEv)
  /\ pcFine = "queued"

\* C3: between update cycles the code and the provider name are both present
\* or both absent, and present exactly when the selected index is that of a
\* provider and the last generation attempt succeeded.
C3_CodeAndNameTogether ==
  executing = {} =>
    /\ (currentOTP # << >>) <=> (currentProvider # "")
    /\ (currentOTP # << >>) <=>
         (InRange(selectedProviderIndex, providers) /\ lastGen = "ok")

\* C4: select(index) with an index outside [0, len(providers)) clears the
\* code and the name, shows the no-selection text and does not crash.
C4_OutOfRangeSelectClears ==
  (lastEvent = "select" /\ ~InRange(selectedProviderIndex, providers)) =>
    /\ ~crashed
    /\ currentOTP = << >>
    /\ currentProvider = ""
    /\ otpView = NoSelectionView

\* C5: the fine tick calls no generation and changes neither the code, the
\* name, the selected index nor the provider list; at most it sets the code
\* view with the remaining seconds of the current instant.
C5_FineTickOnlyCountdown ==
  [][ FineStep =>
        /\ calls' = << >>
        /\ UNCHANGED << sessionVars, dataVars, lastGen >>
        /\ \/ otpView' = otpView
           \/ otpView' = CodeView(currentProvider, currentOTP, now) ]_vars

\* C5 witness: a fine tick has been run with a code present and has set the
\* view to the remaining seconds of the current instant.
C5_Witness ==
  /\ lastEvent = "fine"
  /\ currentOTP # << >>
  /\ otpView = CodeView(currentProvider, currentOTP, now)
  /\ now > tickerStart

\* C6: a coarse tick run while no provider is selected, or with no providers,
\* calls no generation and leaves the code, the name and the display alone.
C6_CoarseTickNoSelection ==
  [][ (CoarseStep /\ (selectedProviderIndex = -1 \/ Len(providers) = 0)) =>
        /\ calls' = << >>
        /\ UNCHANGED << sessionVars, dataVars, otpView, lastGen >> ]_vars

\* C6 witness: a coarse tick has been run with providers loaded and none
\* selected.
C6_Witness ==
  /\ lastEvent = "coarse"
  /\ selectedProviderIndex = -1
  /\ Len(providers) > 0
  /\ calls = << >>
  /\ otpView = WelcomeView

\* C7: a coarse tick never changes the selected index, whether its generation
\* succeeds or fails.
C7_RefreshKeepsSelection ==
  [][ CoarseStep => selectedProviderIndex' = selectedProviderIndex ]_vars

\* C7 witness: a coarse tick's generation has failed with a provider selected.
C7_Witness ==
  /\ lastEvent = "coarse"
  /\ calls = << "generateTOTP" >>
  /\ lastGen = "err"
  /\ InRange(selectedProviderIndex, providers)

\* C8: after a failed generation the process runs on with the index kept and
\* no code, each goroutine is in its loop with its update, if any, waiting for
\* the main loop; every coarse tick with a provider selected attempts
\* generation again, and an attempt that succeeds stores the new code.
C8_FailureKeepsTicking ==
  /\ [](lastGen = "err" =>
          /\ ~crashed
          /\ InRange(selectedProviderIndex, providers)
          /\ currentOTP = << >>
          /\ pcCoarse = "queued" => (Queued(CoarseEv) \/ CoarseEv \in executing)
          /\ pcFine = "queued" => (Queued(FineEv) \/ FineEv \in executing))
  /\ [][ (CoarseStep /\ selectedProviderIndex >= 0 /\ Len(providers) > 0) =>
           /\ calls' = << "generateTOTP" >>
           /\ pcCoarse' = "select"
           /\ ~crashed'
           /\ lastGen' = "ok" =>
                /\ currentOTP' # << >>
                /\ CounterOf(currentOTP') = now \div WindowSeconds
                /\ currentProvider' = providers[selectedProviderIndex + 1].Name
           /\ lastGen' = "err" =>
                /\ currentOTP' = << >>
                /\ otpView' = Message("Error: generation failed") ]_vars

\* C8 witness: after a failed generation a later coarse tick has attempted
\* generation again, and the coarse goroutine is back in its loop.
C8_Witness ==
  /\ lastEvent = "coarse"
  /\ lastGen = "err"
  /\ calls = << "generateTOTP" >>
  /\ selectedProviderIndex >= 0
  /\ pcCoarse = "select"
  /\ now >= tickerStart + CoarsePeriod

\* C9: an add-provider with an empty name, an empty secret or a secret that
\* is not base32 changes nothing but the message and writes no file: an add
\* that changes anything has appended a provider whose name is not empty and
\* whose secret is none of these.
C9_RejectedAddChangesNothing ==
  [][ AddStep =>
        \/ /\ UNCHANGED << sessionVars, dataVars, lastGen >>
           /\ calls' = << >>
           /\ otpView'.text \in ValidationErrors
        \/ /\ Len(providers') = Len(providers) + 1
           /\ providers'[Len(providers')].Name # ""
           /\ providers'[Len(providers')].Secret
                \notin { SecretEmpty, SecretBad, SecretLower } ]_vars

\* C9 witness: an add with a malformed secret has been rejected while a code
\* was present.
C9_Witness ==
  /\ lastEvent = "add"
  /\ otpView = Message("Error: Secret must be a valid base32 string")
  /\ calls = << >>
  /\ currentOTP # << >>

\* C10: an add-provider whose file write fails leaves the provider list, the
\* selected index, the code and the name as they were before it.
C10_FailedSaveKeepsState ==
  [][ (AddStep /\ calls' = << "saveProviders" >>
         /\ otpView' = Message("Error saving providers")) =>
        UNCHANGED << providers, providerList, sessionVars >> ]_vars

\* C11: every add-provider that changes the in-memory provider list leaves
\* the file holding exactly that list, same entries in the same order, when
\* its handler returns.
C11_WriteThrough ==
  [][ (AddStep /\ providers' # providers) => file' = FileOf(providers') ]_vars

\* C12: after an add-provider, whatever list was loaded, every provider of
\* the list has a non-empty name and no two providers have the same name.
C12_NamesNonEmptyDistinct ==
  lastEvent = "add" =>
    /\ \A i \in 1..Len(providers) : providers[i].Name # ""
    /\ \A i, j \in 1..Len(providers) :
         i # j => providers[i].Name # providers[j].Name

\* C13: the session starts Unselected, also with providers loaded.  A tick
\* run while Unselected leaves it Unselected.  Every change of state is made
\* by a select, an add-provider or a coarse refresh that attempted a
\* generation, and leads to Selected-Valid when the attempt succeeded and to
\* Selected-Error when it failed; none leads back to Unselected unless the
\* list is empty or the selected provider does not exist.
C13_StateMachine ==
  /\ StateOf(selectedProviderIndex, currentOTP) = "Unselected"
  /\ [][ LET from == StateOf(selectedProviderIndex, currentOTP)
             to == StateOf(selectedProviderIndex', currentOTP')
         IN  /\ (from = "Unselected" /\ (CoarseStep \/ FineStep)) =>
                   to = "Unselected"
             /\ from # to =>
                   /\ SelectStep \/ AddStep \/ CoarseStep
                   /\ calls'[Len(calls')] = "generateTOTP"
                   /\ to = "SelectedValid" <=> lastGen' = "ok"
                   /\ to = "SelectedError" <=> lastGen' = "err"
                   /\ to = "Unselected" =>
                        \/ Len(providers') = 0
                        \/ ~InRange(selectedProviderIndex, providers') ]_vars

\* C13 witness: with two providers in the list and in the file, the first,
\* whose secret is malformed, has been selected after the add-provider that
\* selected the second: the session is Selected-Error.
C13_Witness ==
  /\ lastEvent = "select"
  /\ StateOf(selectedProviderIndex, currentOTP) = "SelectedError"
  /\ selectedProviderIndex = 0
  /\ Len(providers) = 2
  /\ file = FileOf(providers)
  /\ lastGen = "err"

\* C20: in every state the selected index is -1 or that of a provider, the
\* on-screen list has the providers' names in the providers' order, and no
\* indexed read of the selected provider has gone out of bounds.
C20_IndexAndListInStep ==
  /\ selectedProviderIndex = -1 \/ InRange(selectedProviderIndex, providers)
  /\ Len(providerList) = Len(providers)
  /\ \A i \in 1..Len(providers) : providerList[i] = providers[i].Name
  /\ ~crashed

\* C20 witness: an add-provider whose save failed has returned with another
\* provider selected: list and items both hold the new provider, the index
\* is still that of the first.
C20_Witness ==
  /\ lastEvent = "add"
  /\ otpView = Message("Error saving providers")
  /\ Len(providers) = 2
  /\ providers[1].Name # providers[2].Name
  /\ selectedProviderIndex = 0

\* C16: at startup a missing file gives an empty list and no error, an
\* unreadable or malformed file a reported error and an empty list; the
\* content of a file that failed to load changes only in an add-provider
\* whose save succeeds, which leaves the in-memory list in it.
C16_LoadErrorLeavesFile ==
  /\ [](lastEvent = "none" =>
          /\ file.state = "missing" =>
               (providers = << >> /\ ~loadProviders(file).err)
          /\ file.state = "corrupt" =>
               (providers = << >> /\ loadProviders(file).err))
  /\ [][ (file.state = "corrupt" /\ file' # file) =>
           /\ AddStep
           /\ otpView'.text # "Error saving providers"
           /\ file' = FileOf(providers') ]_vars

\* C17: at every instant t the remaining seconds of the code view are in
\* 1..30, equal 30 - (t mod 30), and are 30 only when t mod 30 = 0.
C17_RemainingSecondsRange ==
  otpView.text = "code" =>
    LET t == otpView.at
        r == otpView.remaining
    IN  /\ r \in 1..WindowSeconds
        /\ r = WindowSeconds - (t % WindowSeconds)
        /\ r = WindowSeconds => t % WindowSeconds = 0

\* C17 witness: the countdown computed at the instant 90, the thirtieth
\* second of a minute, is 30.
C17_Witness ==
  /\ otpView.text = "code"
  /\ otpView.at = 90
  /\ otpView.remaining = 30
  /\ lastEvent = "select"

\* C15: once the Quit button has stopped the application, neither goroutine
\* queues a further update, no queued update is applied to the session, the
\* lists or the display, and when the process has ended each goroutine has
\* left its loop with nothing of its own waiting in the queue.
C15_ShutdownStopsTasks ==
  /\ [][ ShutdownBegun =>
           /\ ~CoarseTaskStep
           /\ ~FineTaskStep
           /\ UNCHANGED << sessionVars, dataVars, otpView >> ]_vars
  /\ [](app = "exited" =>
          /\ pcCoarse = "select" /\ ~Queued(CoarseEv)
          /\ pcFine = "select" /\ ~Queued(FineEv))

C18_BrowseErrorKeepsListing ==
  [][ ListingFailedStep =>
        /\ root' = Pages
        /\ picker'.currentPath = picker.currentPath
        /\ picker'.items = picker.items ]_vars

\* C19: when the picker is closed, by a file selection or by Escape, the
\* root and the input capture are those the application had when
\* ShowFilePicker was called, and a file selection has called the callback
\* once, with the path of a file of the list, an Escape not at all.
C19_CloseRestoresApplication ==
  [][ PickerCloseStep =>
        /\ root' = picker.openedFrom
        /\ inputCapture' = picker.originalInputCapture
        /\ lastEvent' = "pick" =>
             \E i \in 1..Len(picker.items) :
               /\ picker.items[i].icon = "file"
               /\ callbackLog' = << picker.items[i].path >>
        /\ lastEvent' = "escape" => callbackLog' = << >> ]_vars

\* C21: a message set on the display by a handler of the user's or by a
\* failed generation is still displayed after every fine tick: the fine
\* update does not put the code view in its place.
C21_MessageSurvivesFineTick ==
  [][ (FineStep /\ otpView.text \in MessageTexts) => otpView' = otpView ]_vars

====
